---- MODULE Spec2Model ----
(***************************************************************************)
(* Model of N's Flight Explorer: the AirLabs client (flight_api_client.py),*)
(* the SQLite store (db.py), the clustering step (ml_models.py) and the    *)
(* Streamlit script main() (app.py), which is re-executed from top to      *)
(* bottom on every user interaction.                                       *)
(***************************************************************************)
EXTENDS Integers, Sequences, FiniteSets, TLC

\* ------------------------------------------------------------------ values

\* Python None in a text field / SQL NULL in a TEXT column.
None == "None"

\* Python None / NaN in a numeric field (alt, speed are >= 0 when present).
NoNum == -1

\* pandas "no value" (NaN / <NA>) in the cluster column.
NoLabel == -1

\* ------------------------------------------------------------------ bounds

\* The clock runs from 0 to MaxTime seconds.
MaxTime == 60

\* Number of script executions (user interactions) explored.
MaxRuns == 2

\* Longest upstream list handed to search_flights when it is checked alone.
MaxLen == 3

\* Largest limit handed to search_flights when it is checked alone.
MaxLimit == 3

\* Number of stored searches when the store is checked alone.
MaxCalls == 2

\* Number of midnights that pass when the store is checked alone.
MaxDays == 1

\* --------------------------------------------------------- program constants

\* @st.cache_data(ttl=60)
TTL == 60

\* cluster_flights_by_alt_speed(df, n_clusters=3)
N_CLUSTERS == 3

\* get_recent_searches(limit=10)
RECENT_LIMIT == 10

\* len(alt_speed_df) < 5
MIN_SCATTER == 5

\* Seconds between two observations of the clock.
ClockStep == TTL \div 2

\* ------------------------------------------------------- raw flight records

\* One AirLabs flight object, reduced to the fields the program reads back
\* (the remaining columns are copied the same way, item.get -> row.get).
RawFlight(fi, fn, al, dep, arr, alt, speed) ==
    [flight_iata |-> fi, flight_number |-> fn, airline_iata |-> al,
     dep_iata |-> dep, arr_iata |-> arr, alt |-> alt, speed |-> speed]

FlightA == RawFlight("LH760", "760", "LH", "FRA", "BER", 100, 800)
FlightB == RawFlight("EW10", "10", "EW", "FRA", "MUC", NoNum, 700)
FlightC == RawFlight("LH12", "12", "LH", "MUC", "BER", 300, 500)
FlightD == RawFlight(None, None, None, None, None, 200, 600)

\* ------------------------------------------------------------- JSON bodies

Absent == [t |-> "absent", items |-> <<>>, flightsIsList |-> FALSE]
JList(xs) == [t |-> "list", items |-> xs, flightsIsList |-> FALSE]
\* {"flights": [...]} (flightsIsList) or {"flights": "..."}
JFlights(xs, isList) == [t |-> "flights", items |-> xs, flightsIsList |-> isList]
\* a dict without a "flights" key, {} when empty
JDict(empty) == [t |-> IF empty THEN "emptydict" ELSE "dict", items |-> <<>>,
                 flightsIsList |-> FALSE]

\* The top-level "error" value: missing, or an object with a "code", a
\* "message" (None when the key is missing) and possibly other keys.
NoError == [present |-> FALSE, code |-> None, message |-> None, extra |-> FALSE]
ErrorObj(code, msg) == [present |-> TRUE, code |-> code, message |-> msg,
                        extra |-> FALSE]
\* {"error": {"info": "..."}}
ErrorInfo == [present |-> TRUE, code |-> None, message |-> None, extra |-> TRUE]

\* resp.json(): a top-level list or a top-level object
BodyList(xs) == [t |-> "list", items |-> xs, error |-> NoError,
                 response |-> Absent, data |-> Absent]
BodyDict(err, resp, dat) == [t |-> "dict", items |-> <<>>, error |-> err,
                             response |-> resp, data |-> dat]

\* Python truthiness of a JSON value
Truthy(v) ==
    CASE v.t = "absent" -> FALSE
      [] v.t = "list" -> Len(v.items) > 0
      [] v.t = "emptydict" -> FALSE
      [] OTHER -> TRUE

\* An "error" object is truthy when it has at least one key.
ErrorTruthy(e) == e.present /\ (e.code /= None \/ e.message /= None \/ e.extra)

\* What the network gives back: a transport/HTTP/parse failure or a body.
HttpFailure == [ok |-> FALSE, body |-> BodyList(<<>>)]
HttpOk(body) == [ok |-> TRUE, body |-> body]

\* ------------------------------------------------- flight_api_client.py

FlightSearchParams(code, dep, arr, limit) ==
    [flight_code |-> code, dep_iata |-> dep, arr_iata |-> arr, limit |-> limit]

Raised(kind, code, msg) ==
    [raised |-> TRUE, kind |-> kind, code |-> code, message |-> msg,
     data |-> BodyList(<<>>)]

\* Variant of ClientGet: the error is looked at only when the body holds no
\* result to unwrap.
ClientGetResultFirst(http) ==
    IF ~http.ok
    THEN Raised("request", None, None)
    ELSE IF /\ http.body.t = "dict" /\ ErrorTruthy(http.body.error)
            /\ ~Truthy(http.body.response) /\ ~Truthy(http.body.data)
         THEN Raised("provider",
                     IF http.body.error.code = None
                     THEN "unknown_error" ELSE http.body.error.code,
                     IF http.body.error.message = None
                     THEN "Unknown AirLabs API error"
                     ELSE http.body.error.message)
         ELSE [raised |-> FALSE, kind |-> None, code |-> None,
               message |-> None, data |-> http.body]

\* AirLabsClient._get: requests.get / raise_for_status / resp.json() may
\* raise; a truthy top-level "error" of an object body raises RuntimeError.
ClientGet(http) ==
    IF ~http.ok
    THEN Raised("request", None, None)
    ELSE IF http.body.t = "dict" /\ ErrorTruthy(http.body.error)
         THEN Raised("provider",
                     IF http.body.error.code = None
                     THEN "unknown_error" ELSE http.body.error.code,
                     IF http.body.error.message = None
                     THEN "Unknown AirLabs API error"
                     ELSE http.body.error.message)
         ELSE [raised |-> FALSE, kind |-> None, code |-> None,
               message |-> None, data |-> http.body]

\* records = data.get("response") or data.get("data")
Unwrap(data) ==
    IF data.t = "dict"
    THEN IF Truthy(data.response) THEN data.response ELSE data.data
    ELSE Absent

Prefix(xs, n) == [i \in 1..n |-> xs[i]]

\* Variant of Truncate: keeps the last limit elements, flights[-limit:].
TruncateTail(flights, limit) ==
    IF limit /= 0 /\ Len(flights) > limit
    THEN [i \in 1..limit |-> flights[Len(flights) - limit + i]]
    ELSE flights

\* if params.limit and len(flights) > params.limit: flights[:params.limit]
Truncate(flights, limit) ==
    IF limit /= 0 /\ Len(flights) > limit THEN Prefix(flights, limit) ELSE flights

\* The list search_flights holds before it enforces the limit; isList is
\* false when records["flights"] is not a list (the function returns []).
Unwrapped(data) ==
    LET records == Unwrap(data) IN
    CASE records.t = "list" -> [isList |-> TRUE, items |-> records.items]
      [] records.t = "flights" ->
             [isList |-> records.flightsIsList, items |-> records.items]
      [] data.t = "list" -> [isList |-> TRUE, items |-> data.items]
      [] OTHER -> [isList |-> TRUE, items |-> <<>>]

\* AirLabsClient.search_flights
SearchFlights(params, http) ==
    LET got == ClientGet(http) IN
    IF got.raised
    THEN [raised |-> TRUE, kind |-> got.kind, code |-> got.code,
          message |-> got.message, flights |-> <<>>]
    ELSE LET u == Unwrapped(got.data) IN
         [raised |-> FALSE, kind |-> None, code |-> None, message |-> None,
          flights |-> IF ~u.isList THEN <<>>
                      ELSE Truncate(u.items, params.limit)]

\* A Python str as the sequence of its characters; an Optional[str] is a
\* text or Python None.
Text(chars) == [none |-> FALSE, chars |-> chars]
NoText == [none |-> TRUE, chars |-> <<>>]

\* "if params.dep_iata:" -- None and "" are falsy.
TextTruthy(t) == ~t.none /\ t.chars /= <<>>

\* str.isspace / str.isdigit / str.upper on the characters that occur.
IsSpace(c) == c = " "
IsDigit(c) == c \in {"0", "1", "2", "3", "4", "5", "6", "7", "8", "9"}
UpperChar(c) ==
    CASE c = "a" -> "A" [] c = "b" -> "B" [] c = "e" -> "E" [] c = "f" -> "F"
      [] c = "h" -> "H" [] c = "l" -> "L" [] c = "r" -> "R" [] OTHER -> c

RECURSIVE LStrip(_)
LStrip(s) == IF s /= <<>> /\ IsSpace(Head(s)) THEN LStrip(Tail(s)) ELSE s

RECURSIVE RStrip(_)
RStrip(s) ==
    IF s /= <<>> /\ IsSpace(s[Len(s)])
    THEN RStrip(SubSeq(s, 1, Len(s) - 1)) ELSE s

\* str.strip()
StrStrip(s) == RStrip(LStrip(s))

\* str.upper()
StrUpper(s) == [i \in 1..Len(s) |-> UpperChar(s[i])]

\* "".join(ch for ch in clean if ch.isdigit())
RECURSIVE DigitsOf(_)
DigitsOf(s) ==
    IF s = <<>> THEN <<>>
    ELSE (IF IsDigit(Head(s)) THEN <<Head(s)>> ELSE <<>>) \o DigitsOf(Tail(s))

\* Variant of BuildQuery: the filters are forwarded as typed, without upper().
BuildQueryAsTyped(params) ==
    LET clean == IF TextTruthy(params.flight_code)
                 THEN StrStrip(params.flight_code.chars) ELSE <<>>
        numeric == DigitsOf(clean)
        keys == (IF TextTruthy(params.dep_iata) THEN {"dep_iata"} ELSE {})
                \cup (IF TextTruthy(params.arr_iata) THEN {"arr_iata"} ELSE {})
                \cup (IF clean /= <<>> THEN {"flight_iata"} ELSE {})
                \cup (IF numeric /= <<>> THEN {"flight_number"} ELSE {})
    IN [k \in keys |->
          CASE k = "dep_iata" -> StrStrip(params.dep_iata.chars)
            [] k = "arr_iata" -> StrStrip(params.arr_iata.chars)
            [] k = "flight_iata" -> clean
            [] OTHER -> numeric]

\* search_flights, lines 75-90: the filters put into the query.
BuildQuery(params) ==
    LET clean == IF TextTruthy(params.flight_code)
                 THEN StrUpper(StrStrip(params.flight_code.chars)) ELSE <<>>
        numeric == DigitsOf(clean)
        keys == (IF TextTruthy(params.dep_iata) THEN {"dep_iata"} ELSE {})
                \cup (IF TextTruthy(params.arr_iata) THEN {"arr_iata"} ELSE {})
                \cup (IF clean /= <<>> THEN {"flight_iata"} ELSE {})
                \cup (IF numeric /= <<>> THEN {"flight_number"} ELSE {})
    IN [k \in keys |->
          CASE k = "dep_iata" -> StrUpper(StrStrip(params.dep_iata.chars))
            [] k = "arr_iata" -> StrUpper(StrStrip(params.arr_iata.chars))
            [] k = "flight_iata" -> clean
            [] OTHER -> numeric]

\* The configured AIRLABS_API_KEY.
ApiKey == <<"k">>

\* _get, lines 52-56: the query string sent, api_key plus the given filters
\* (none of which is None).
SentQuery(filters) ==
    [k \in {"api_key"} \cup DOMAIN filters |->
        IF k \in DOMAIN filters THEN filters[k] ELSE ApiKey]

\* ------------------------------------------------------ pandas datasets

\* A DataFrame: its rows in order and, when the cluster column exists, one
\* label per row.  present = FALSE is Python None (df = None).
DataFrame(rows) == [present |-> TRUE, rows |-> rows, hasCluster |-> FALSE,
                    cluster |-> <<>>]
NoDataFrame == [present |-> FALSE, rows |-> <<>>, hasCluster |-> FALSE,
                cluster |-> <<>>]
Empty(df) == Len(df.rows) = 0

\* Python's order on the text values that occur (str.__lt__).
StrOrder == <<"10", "12", "760", "BER", "EW", "FRA", "LH", "MUC">>
Rank(s) == IF s = None THEN Len(StrOrder) + 1
           ELSE CHOOSE i \in 1..Len(StrOrder) : StrOrder[i] = s

\* sort_values(["dep_iata", "arr_iata", "airline_iata", "flight_number"]):
\* ascending, missing values last.
RowLess(a, b) ==
    LET ka == <<Rank(a.dep_iata), Rank(a.arr_iata), Rank(a.airline_iata),
                Rank(a.flight_number)>>
        kb == <<Rank(b.dep_iata), Rank(b.arr_iata), Rank(b.airline_iata),
                Rank(b.flight_number)>>
    IN \E i \in 1..4 : ka[i] < kb[i] /\ \A j \in 1..(i - 1) : ka[j] = kb[j]

RECURSIVE InsertSorted(_, _)
InsertSorted(row, sorted) ==
    IF sorted = <<>> THEN <<row>>
    ELSE IF RowLess(row, Head(sorted)) THEN <<row>> \o sorted
    ELSE <<Head(sorted)>> \o InsertSorted(row, Tail(sorted))

RECURSIVE SortRows(_)
SortRows(rows) ==
    IF rows = <<>> THEN <<>>
    ELSE InsertSorted(rows[Len(rows)], SortRows(Prefix(rows, Len(rows) - 1)))

\* flights_to_dataframe: one row per record (item.get per column), sorted.
FlightsToDataFrame(records) == DataFrame(SortRows(records))

\* ---------------------------------------------------------- ml_models.py

\* mask = df["alt"].notna() & df["speed"].notna()
ValidRows(df) == {i \in 1..Len(df.rows) :
                    df.rows[i].alt /= NoNum /\ df.rows[i].speed /= NoNum}

\* The labelings KMeans.fit_predict may hand back for the masked rows.
Labelings(df) == [ValidRows(df) -> 0..(N_CLUSTERS - 1)]

\* The labelings drawn when a whole script execution is explored: the rows
\* fall into c = 1, 2, ..., n_clusters groups.
SampleLabelings(df) ==
    {[i \in ValidRows(df) |-> i % c] : c \in 1..N_CLUSTERS}

\* The labelings fit_predict of KMeans(n_clusters) may hand back.
FitPredict(df, n_clusters) == [ValidRows(df) -> 0..(n_clusters - 1)]

\* "alt" in df.columns and "speed" in df.columns.  A frame built from no
\* record has no column at all.
HasAltSpeed(df) ==
    /\ ~Empty(df)
    /\ \A i \in 1..Len(df.rows) : {"alt", "speed"} \subseteq DOMAIN df.rows[i]

\* Variant of ClusterFlights: "mask.sum() <= n_clusters".
ClusterFlightsStrict(df, n_clusters, labels) ==
    IF ~HasAltSpeed(df) \/ Cardinality(ValidRows(df)) <= n_clusters
    THEN [df |-> [df EXCEPT !.hasCluster = TRUE,
                            !.cluster = [i \in 1..Len(df.rows) |-> NoLabel]],
          fitted |-> FALSE, input |-> df]
    ELSE [df |-> [df EXCEPT !.hasCluster = TRUE,
                            !.cluster = [i \in 1..Len(df.rows) |->
                                           IF i \in ValidRows(df)
                                           THEN labels[i] ELSE NoLabel]],
          fitted |-> TRUE, input |-> df]

\* cluster_flights_by_alt_speed(df, n_clusters): works on df.copy(), so the
\* caller's frame (input) stays as it was; labels is what fit_predict returns.
ClusterFlights(df, n_clusters, labels) ==
    IF ~HasAltSpeed(df) \/ Cardinality(ValidRows(df)) < n_clusters
    THEN [df |-> [df EXCEPT !.hasCluster = TRUE,
                            !.cluster = [i \in 1..Len(df.rows) |-> NoLabel]],
          fitted |-> FALSE, input |-> df]
    ELSE [df |-> [df EXCEPT !.hasCluster = TRUE,
                            !.cluster = [i \in 1..Len(df.rows) |->
                                           IF i \in ValidRows(df)
                                           THEN labels[i] ELSE NoLabel]],
          fitted |-> TRUE, input |-> df]

\* ------------------------------------------------------------------ db.py

\* init_db: both tables empty, no id handed out yet (sqlite_sequence).
EmptyDb == [searches |-> {}, flights |-> {}, seqSearches |-> 0, seqFlights |-> 0]

\* What can go wrong inside one store call.
DbFaults == {"none", "search_insert", "flights_insert", "commit"}

SearchRow(id, at, dep, arr, code, limit, count) ==
    [id |-> id, searched_at |-> at, dep_iata |-> dep, arr_iata |-> arr,
     flight_code |-> code, limit_value |-> limit, results_count |-> count]

FlightRow(id, search_id, row) == [id |-> id, search_id |-> search_id, row |-> row]

\* conn.commit() makes the pending writes durable; a connection that is
\* dropped without commit() rolls its open transaction back.
Commit(durable, pending) == pending

\* Variant of Rollback: every statement is committed as it is executed.
RollbackPerStatement(durable, pending) == pending

Rollback(durable, pending) == durable

\* Variant of ResultsCount: only rows that carry a flight_iata are counted.
ResultsCountWithCode(df) ==
    IF df.present
    THEN Cardinality({i \in 1..Len(df.rows) : df.rows[i].flight_iata /= None})
    ELSE 0

\* results_count = int(len(flights_df)) if flights_df is not None else 0
ResultsCount(df) == IF df.present THEN Len(df.rows) ELSE 0

\* Variant of InsertedFlights: the loop stops one row early.
InsertedFlightsShort(d, search_id, df, n) ==
    {FlightRow(d.seqFlights + i, search_id, df.rows[i]) : i \in 1..(n - 1)}

\* rows_to_insert / executemany: one flights row per row of the dataset,
\* numbered on from the last id handed out.
InsertedFlights(d, search_id, df, n) ==
    {FlightRow(d.seqFlights + i, search_id, df.rows[i]) : i \in 1..n}

\* log_search_and_flights.  The two INSERTs run in one implicit transaction
\* of one connection; an exception anywhere skips conn.commit().
LogSearchAndFlights(d, dep, arr, code, limit, df, at, fault) ==
    LET results_count == ResultsCount(df)
        search_id == d.seqSearches + 1
        afterSearch ==
            [d EXCEPT !.searches = @ \cup
                         {SearchRow(search_id, at, dep, arr, code, limit,
                                    results_count)},
                      !.seqSearches = search_id]
        afterFlights ==
            IF results_count > 0
            THEN [afterSearch EXCEPT
                    !.flights = @ \cup
                        InsertedFlights(d, search_id, df, Len(df.rows)),
                    !.seqFlights = @ + Len(df.rows)]
            ELSE afterSearch
        failed == \/ fault \in {"search_insert", "commit"}
                  \/ fault = "flights_insert" /\ results_count > 0
        pending == IF fault = "search_insert" THEN d
                   ELSE IF fault = "flights_insert" /\ results_count > 0
                        THEN afterSearch
                        ELSE afterFlights
    IN IF failed
       THEN [ok |-> FALSE, id |-> 0, db |-> Rollback(d, pending)]
       ELSE [ok |-> TRUE, id |-> search_id, db |-> Commit(d, pending)]

\* Variant of DeleteSearchRow: foreign keys are not enforced on the connection.
DeleteSearchRowNoCascade(d, id) ==
    [d EXCEPT !.searches = {s \in @ : s.id /= id}]

\* DELETE FROM searches WHERE id = ? on a connection of get_connection():
\* PRAGMA foreign_keys = ON makes ON DELETE CASCADE remove the flights rows.
DeleteSearchRow(d, id) ==
    [d EXCEPT !.searches = {s \in @ : s.id /= id},
              !.flights = {f \in @ : f.search_id /= id}]

Min(a, b) == IF a < b THEN a ELSE b

\* get_recent_searches(limit): ORDER BY searched_at DESC LIMIT ?.  Rows of
\* the same second come in an order SQLite is free to choose.
RecentSearches(d, limit) ==
    LET k == Min(limit, Cardinality(d.searches)) IN
    {h \in [1..k -> d.searches] :
        /\ \A i, j \in 1..k : i < j =>
              /\ h[i] /= h[j]
              /\ h[i].searched_at >= h[j].searched_at
        /\ \A s \in d.searches :
              (\A i \in 1..k : h[i] /= s) =>
                  \A i \in 1..k : h[i].searched_at >= s.searched_at}

\* get_route_stats: WHERE dep_iata IS NOT NULL AND arr_iata IS NOT NULL
RouteRows(d) == {f \in d.flights : f.row.dep_iata /= None /\ f.row.arr_iata /= None}

\* get_airline_stats: WHERE airline_iata IS NOT NULL
AirlineRows(d) == {f \in d.flights : f.row.airline_iata /= None}

\* get_searches_by_day: GROUP BY substr(searched_at, 1, 10) over searches
SearchesByDayRows(d) == d.searches

\* searched_at is the UTC time in seconds; its first ten characters are the
\* date.
SecondsPerDay == 86400
Day(at) == at \div SecondsPerDay

RECURSIVE SumResults(_)
SumResults(S) ==
    IF S = {} THEN 0
    ELSE LET s == CHOOSE x \in S : TRUE
         IN s.results_count + SumResults(S \ {s})

\* get_searches_by_day: one row per date with COUNT(*) and SUM(results_count).
SearchesByDay(d) ==
    {[date |-> day,
      search_count |-> Cardinality({s \in d.searches : Day(s.searched_at) = day}),
      total_results |-> SumResults({s \in d.searches : Day(s.searched_at) = day})] :
        day \in {Day(s.searched_at) : s \in d.searches}}

\* get_altitude_speed_distribution: WHERE alt IS NOT NULL AND speed IS NOT NULL
AltSpeedRows(d) == {f \in d.flights : f.row.alt /= NoNum /\ f.row.speed /= NoNum}

\* ------------------------------------------------------- popular_routes.py

\* Scores are kept as whole numbers: recency scores in units of 1/Scale,
\* scores in units of 1/(10 * Scale).  The ages that occur divide evenly.
Scale == 20

\* "1 / (1 + x / 30.0)": the decay constant in minutes.
DECAY_MINUTES == 30

\* One row of the search history: searched_at in minutes, dep_iata, arr_iata.
HistoryRow(at, dep, arr) == [searched_at |-> at, dep_iata |-> dep, arr_iata |-> arr]

Max(a, b) == IF a > b THEN a ELSE b

RECURSIVE SumOver(_, _)
SumOver(f, S) ==
    IF S = {} THEN 0
    ELSE LET i == CHOOSE x \in S : TRUE IN f[i] + SumOver(f, S \ {i})

\* df["route"] = df["dep_iata"] + " -> " + df["arr_iata"]; a row with a
\* missing code has no route and falls out of every groupby.
HasRoute(row) == row.dep_iata /= None /\ row.arr_iata /= None
RouteOf(row) == <<row.dep_iata, row.arr_iata>>

\* age_minutes = (now - searched_at) in minutes, clip(lower=0)
AgeMinutes(at, row) == Max(0, at - row.searched_at)

\* max(0.1, 1 / (1 + x / 30.0)), in units of 1/Scale
RecencyScore(x) ==
    Max(Scale \div 10, (DECAY_MINUTES * Scale) \div (DECAY_MINUTES + x))

\* merged: per route its count, summed recency score, score and last search.
Merged(df, at) ==
    LET idx == {i \in 1..Len(df) : HasRoute(df[i])}
        of(route) == {i \in idx : RouteOf(df[i]) = route}
        recency == [i \in idx |-> RecencyScore(AgeMinutes(at, df[i]))]
        searched == [i \in idx |-> df[i].searched_at]
    IN {[route |-> route,
         count |-> Cardinality(of(route)),
         recency_score |-> SumOver(recency, of(route)),
         score |-> 7 * Scale * Cardinality(of(route))
                   + 3 * SumOver(recency, of(route)),
         last_searched |-> CHOOSE t \in {searched[i] : i \in of(route)} :
                              \A i \in of(route) : searched[i] <= t] :
          route \in {RouteOf(df[i]) : i \in idx}}

\* Variant of SortedByScore: sort_values("score") in ascending order.
SortedByScoreAscending(S) ==
    {q \in [1..Cardinality(S) -> S] :
        \A i, j \in 1..Cardinality(S) :
            i < j => q[i] /= q[j] /\ q[i].score <= q[j].score}

\* merged.sort_values("score", ascending=False): the sort is not stable, so
\* records of equal score come in any order.
SortedByScore(S) ==
    {q \in [1..Cardinality(S) -> S] :
        \A i, j \in 1..Cardinality(S) :
            i < j => q[i] /= q[j] /\ q[i].score >= q[j].score}

\* compute_popular_routes(df, top_k) run at time at: the results it may return.
ComputePopularRoutes(df, top_k, at) ==
    IF df = <<>> THEN {<<>>}
    ELSE {Prefix(q, Min(top_k, Len(q))) : q \in SortedByScore(Merged(df, at))}

\* ------------------------------------------------------------------ app.py

\* The texts in the three text inputs and the slider's value.
Typed(code, dep, arr, limit) ==
    [flight_code |-> code, dep_iata |-> dep, arr_iata |-> arr, limit |-> limit]

\* str.strip() and str.upper() on the texts a user types here.
Strip(s) == IF s = " " THEN "" ELSE s
Upper(s) == CASE s = "fra" -> "FRA" [] s = "ber" -> "BER" [] OTHER -> s

\* "x or None"
OrNone(s) == IF s = "" THEN None ELSE s

\* Variant of BuildSearchCard: the button keeps its state like a checkbox.
BuildSearchCardSticky(typed, clicked) ==
    [flight_code |-> Strip(typed.flight_code),
     dep_iata |-> Upper(Strip(typed.dep_iata)),
     arr_iata |-> Upper(Strip(typed.arr_iata)),
     limit |-> typed.limit,
     search_clicked |-> TRUE]

\* build_search_card: the widgets' values of this run.
BuildSearchCard(typed, clicked) ==
    [flight_code |-> Strip(typed.flight_code),
     dep_iata |-> Upper(Strip(typed.dep_iata)),
     arr_iata |-> Upper(Strip(typed.arr_iata)),
     limit |-> typed.limit,
     search_clicked |-> clicked]

\* Variant of CacheKey: the limit is left out of the key.
CacheKeyNoLimit(flight_code, dep_iata, arr_iata, limit) ==
    <<flight_code, dep_iata, arr_iata, 0>>

\* st.cache_data keys an entry by the call's argument values.
CacheKey(flight_code, dep_iata, arr_iata, limit) ==
    <<flight_code, dep_iata, arr_iata, limit>>

\* An entry is served until ttl seconds after it was stored.
Fresh(entry, t) == t < entry.at + TTL

CacheLookup(c, key, t) == {e \in c : e.key = key /\ Fresh(e, t)}

\* Storing drops the expired entries and the key's previous entry.
CacheStore(c, key, value, t) ==
    {e \in c : e.key /= key /\ Fresh(e, t)} \cup
    {[key |-> key, value |-> value, at |-> t]}

\* fetch_flights_cached under @st.cache_data(ttl=60): a fresh entry is
\* returned without running the body; an exception is not cached.
FetchFlightsCached(c, t, flight_code, dep_iata, arr_iata, limit, http) ==
    LET key == CacheKey(flight_code, dep_iata, arr_iata, limit)
        hits == CacheLookup(c, key, t)
        params == FlightSearchParams(OrNone(flight_code), OrNone(dep_iata),
                                     OrNone(arr_iata), limit)
        records == SearchFlights(params, http)
        value == FlightsToDataFrame(records.flights)
    IN IF hits /= {}
       THEN [raised |-> FALSE, df |-> (CHOOSE e \in hits : TRUE).value,
             calls |-> 0, cache |-> c]
       ELSE IF records.raised
            THEN [raised |-> TRUE, df |-> NoDataFrame, calls |-> 1, cache |-> c]
            ELSE [raised |-> FALSE, df |-> value, calls |-> 1,
                  cache |-> CacheStore(c, key, value, t)]

\* Variant of OnFetchError: df starts as an empty frame instead of None.
OnFetchErrorEmptyFrame == [present |-> TRUE, rows |-> <<>>, hasCluster |-> FALSE,
                           cluster |-> <<>>]

\* except Exception as exc: st.error(...) -- df keeps the value None.
OnFetchError == NoDataFrame

\* Variant of ClusterStep: a clustering exception is not caught next to the
\* call and the search ends without a dataset.
ClusterStepAbort(df, mlFail, labels) ==
    IF df.present /\ ~Empty(df)
    THEN IF mlFail
         THEN [df |-> NoDataFrame, ml |-> "failed"]
         ELSE [df |-> ClusterFlights(df, N_CLUSTERS, labels).df, ml |-> "ok"]
    ELSE [df |-> df, ml |-> "none"]

\* lines 456-461: cluster a non-empty dataset; on an exception warn and keep df.
ClusterStep(df, mlFail, labels) ==
    IF df.present /\ ~Empty(df)
    THEN IF mlFail
         THEN [df |-> df, ml |-> "failed"]
         ELSE [df |-> ClusterFlights(df, N_CLUSTERS, labels).df, ml |-> "ok"]
    ELSE [df |-> df, ml |-> "none"]

\* Variant of LogStep: only a non-empty dataset is logged.
LogStepNonEmpty(d, state, df, t, fault) ==
    IF df.present /\ ~Empty(df)
    THEN LET r == LogSearchAndFlights(d, state.dep_iata, state.arr_iata,
                                      state.flight_code, state.limit, df, t, fault)
         IN [db |-> r.db, log |-> IF r.ok THEN "ok" ELSE "failed", id |-> r.id,
             df |-> df]
    ELSE [db |-> d, log |-> "none", id |-> 0, df |-> df]

\* Variant of LogStep: a logging exception discards the dataset.
LogStepFatal(d, state, df, t, fault) ==
    IF df.present
    THEN LET r == LogSearchAndFlights(d, state.dep_iata, state.arr_iata,
                                      state.flight_code, state.limit, df, t, fault)
         IN [db |-> r.db, log |-> IF r.ok THEN "ok" ELSE "failed", id |-> r.id,
             df |-> IF r.ok THEN df ELSE NoDataFrame]
    ELSE [db |-> d, log |-> "none", id |-> 0, df |-> df]

\* lines 464-477: log whenever df is not None, with the widgets' values; on
\* an exception warn.  df is what the script goes on with.
LogStep(d, state, df, t, fault) ==
    IF df.present
    THEN LET r == LogSearchAndFlights(d, state.dep_iata, state.arr_iata,
                                      state.flight_code, state.limit, df, t, fault)
         IN [db |-> r.db, log |-> IF r.ok THEN "ok" ELSE "failed", id |-> r.id,
             df |-> df]
    ELSE [db |-> d, log |-> "none", id |-> 0, df |-> df]

\* Number of distinct values of a set-valued column expression.
NUnique(S) == Cardinality(S)

\* render_metrics
RenderMetrics(df) ==
    IF ~df.present
    THEN [state |-> "no_search", flights |-> 0, airlines |-> 0, routes |-> 0,
          clusters |-> 0]
    ELSE IF Empty(df)
    THEN [state |-> "no_flights", flights |-> 0, airlines |-> 0, routes |-> 0,
          clusters |-> 0]
    ELSE LET idx == 1..Len(df.rows) IN
         [state |-> "chips",
          flights |-> Len(df.rows),
          airlines |-> NUnique({df.rows[i].airline_iata : i \in idx} \ {None}),
          routes |-> NUnique({<<df.rows[i].dep_iata, df.rows[i].arr_iata>> :
                                i \in {j \in idx : /\ df.rows[j].dep_iata /= None
                                                   /\ df.rows[j].arr_iata /= None}}),
          clusters |-> IF df.hasCluster
                       THEN NUnique({df.cluster[i] : i \in idx} \ {NoLabel})
                       ELSE 0]

\* render_results: the table and the detail panel exist for a non-empty df.
RenderResults(df) == df.present /\ ~Empty(df)

\* Variant of SubView: the block has no try/except.
SubViewUncaught(failed, empty) ==
    IF failed THEN "raised" ELSE IF empty THEN "info" ELSE "data"

\* One try/except block of a panel: the data access either raises, and the
\* handler turns that into a warning, or yields an info line or the data.
SubView(failed, empty) ==
    IF failed THEN "warning" ELSE IF empty THEN "info" ELSE "data"

\* The store calls the panels make.
ReadOps == {"recent", "routes", "airlines", "by_day", "alt_speed", "clusters"}

ViewNames == <<"routes", "airlines", "by_day", "alt_speed", "clusters">>

\* Statements run in order: nothing after an exception that left its block
\* ("raised") is executed.
InOrder(outcomes) ==
    [i \in 1..Len(outcomes) |->
        IF \E j \in 1..(i - 1) : outcomes[j] = "raised"
        THEN "not_rendered" ELSE outcomes[i]]

\* render_analytics_section: five blocks, each with its own try/except.  The
\* last block only ever shows an info line.
RenderAnalyticsSection(d, fails) ==
    InOrder(<<SubView("routes" \in fails, RouteRows(d) = {}),
              SubView("airlines" \in fails, AirlineRows(d) = {}),
              SubView("by_day" \in fails, SearchesByDayRows(d) = {}),
              SubView("alt_speed" \in fails,
                      Cardinality(AltSpeedRows(d)) < MIN_SCATTER),
              SubView("clusters" \in fails, TRUE)>>)

\* lines 491-500: the recent-searches expander.
RenderHistory(d, fails, rows) ==
    [status |-> SubView("recent" \in fails, d.searches = {}),
     rows |-> IF "recent" \in fails THEN <<>> ELSE rows]

\* lines 490-504: the two expanders, in order.
RenderExpanders(d, fails, rows) ==
    LET history == RenderHistory(d, fails, rows)
        order == InOrder(<<history.status, "analytics">>)
    IN [history |-> history,
        views |-> IF order[2] = "analytics"
                  THEN RenderAnalyticsSection(d, fails)
                  ELSE [i \in 1..Len(ViewNames) |-> "not_rendered"]]

\* ------------------------------------------------------------------ state

VARIABLES
    db,      \* the SQLite file: searches, flights, sqlite_sequence
    cache,   \* entries of st.cache_data for fetch_flights_cached
    now,     \* the clock, in seconds
    runs,    \* script executions so far
    ui,      \* what the last script execution did and rendered
    call,    \* last stand-alone call of search_flights
    unit     \* last stand-alone call of another function of the program

vars == <<db, cache, now, runs, ui, call, unit>>

NoUi ==
    [event |-> "start", state |-> BuildSearchCard(Typed("", "", "", 0), FALSE),
     failed |-> {}, fetch |-> "none",
     calls |-> 0, fetched |-> NoDataFrame, ml |-> "none", log |-> "none",
     logged_id |-> 0, df |-> NoDataFrame, metrics |-> RenderMetrics(NoDataFrame),
     table |-> FALSE, panels |-> {},
     history |-> [status |-> "info", rows |-> <<>>],
     views |-> [i \in 1..Len(ViewNames) |-> "not_rendered"]]

\* FlightSearchParams() with its defaults for the three texts.
NoFilters == [flight_code |-> NoText, dep_iata |-> NoText, arr_iata |-> NoText]

NoCall ==
    [made |-> FALSE, limit |-> 0, http |-> HttpFailure,
     result |-> SearchFlights(FlightSearchParams(None, None, None, 0), HttpFailure),
     params |-> NoFilters, query |-> SentQuery(BuildQuery(NoFilters))]

\* No such call was made yet.
NoUnit == [op |-> "none"]

Init ==
    /\ db = EmptyDb
    /\ cache = {}
    /\ now = 0
    /\ runs = 0
    /\ ui = NoUi
    /\ call = NoCall
    /\ unit = NoUnit

\* ----------------------------------------------------------------- inputs

\* What the user has in the widgets (the slider offers 5, 10, ..., 50).
SearchInputs ==
    {Typed("", "", "", 20), Typed(" ", "fra", "BER", 20),
     Typed("", "FRA", "BER", 5), Typed("LH760", "", "", 20)}

\* A button click, an edit of a text field or the slider, a choice in the
\* detail panel's selectbox.
Events == {"click", "edit", "select"}

SixFlights == <<FlightC, FlightB, FlightB, FlightA, FlightB, FlightB>>

\* What AirLabs answers.
Upstream ==
    {HttpFailure,
     HttpOk(BodyDict(ErrorObj("unknown_api_key", "bad key"), Absent, Absent)),
     HttpOk(BodyDict(NoError, JList(<<>>), Absent)),
     HttpOk(BodyDict(NoError, JList(<<FlightC, FlightA, FlightD>>), Absent)),
     HttpOk(BodyDict(NoError, JList(SixFlights), Absent))}

\* ---------------------------------------------------------------- actions

\* lines 432-444: no filter at all is announced as a global snapshot.
Unfiltered(state) ==
    state.flight_code = "" /\ state.dep_iata = "" /\ state.arr_iata = ""

\* What one execution renders, from the values its steps produced.
Rendered(event, state, failed, f, fetched, cl, lg, ex) ==
    [event |-> event,
     state |-> state,
     failed |-> failed,
     fetch |-> IF f.raised THEN "error" ELSE IF f.calls = 0 THEN "hit" ELSE "miss",
     calls |-> f.calls,
     fetched |-> fetched,
     ml |-> cl.ml,
     log |-> lg.log,
     logged_id |-> lg.id,
     df |-> lg.df,
     metrics |-> RenderMetrics(lg.df),
     table |-> RenderResults(lg.df),
     panels |-> (IF Unfiltered(state) THEN {"global_snapshot"} ELSE {})
                \cup (IF f.raised THEN {"fetch_error"} ELSE {})
                \cup (IF cl.ml = "failed" THEN {"ml_warning"} ELSE {})
                \cup (IF lg.log = "failed" THEN {"db_warning"} ELSE {}),
     history |-> ex.history,
     views |-> ex.views]

\* main(): one execution of the script, caused by one user interaction.
Main(typed, event, http, mlFail, dbFault, readFails) ==
    /\ runs < MaxRuns
    /\ event = "select" => ui.table
    /\ LET state == BuildSearchCard(typed, event = "click")
       IN IF ~state.search_clicked
          THEN /\ UNCHANGED <<db, cache>>
               /\ \E rows \in RecentSearches(db, RECENT_LIMIT) :
                  \E ex \in {RenderExpanders(db, readFails, rows)} :
                    ui' = [NoUi EXCEPT !.event = event,
                                       !.failed = readFails,
                                       !.history = ex.history,
                                       !.views = ex.views]
          ELSE \E f \in {FetchFlightsCached(cache, now, state.flight_code,
                                            state.dep_iata, state.arr_iata,
                                            state.limit, http)} :
               \E fetched \in {IF f.raised THEN OnFetchError ELSE f.df} :
               \E labels \in SampleLabelings(fetched) :
               \E cl \in {ClusterStep(fetched, mlFail, labels)} :
               \E lg \in {LogStep(db, state, cl.df, now, dbFault)} :
               \E rows \in RecentSearches(lg.db, RECENT_LIMIT) :
               \E ex \in {RenderExpanders(lg.db, readFails, rows)} :
                  /\ db' = lg.db
                  /\ cache' = f.cache
                  /\ ui' = Rendered(event, state, readFails, f, fetched, cl, lg, ex)
    /\ runs' = runs + 1
    /\ UNCHANGED <<now, call, unit>>

\* The search button is clicked; every panel read succeeds.
Search ==
    \E typed \in SearchInputs, http \in Upstream, mlFail \in BOOLEAN,
       dbFault \in DbFaults :
        Main(typed, "click", http, mlFail, dbFault, {})

\* Any other interaction re-runs the script without a click.
Refresh ==
    \E typed \in SearchInputs, event \in Events \ {"click"} :
        Main(typed, event, HttpFailure, FALSE, "none", {})

\* Time passes between two interactions.
Tick ==
    /\ now + ClockStep <= MaxTime
    /\ now' = now + ClockStep
    /\ UNCHANGED <<db, cache, runs, ui, call, unit>>

\* A searches row is deleted through a connection of get_connection().
DeleteSearch ==
    /\ \E s \in db.searches : db' = DeleteSearchRow(db, s.id)
    /\ UNCHANGED <<cache, now, runs, ui, call, unit>>

Next == Search \/ Refresh \/ Tick \/ DeleteSearch

Spec == Init /\ [][Next]_vars

\* ------------------------------------------- the panels under read failures

\* A search while any of the panels' store reads may fail.
PanelSearch ==
    \E http \in {HttpFailure,
                 HttpOk(BodyDict(NoError, JList(<<FlightC, FlightA, FlightD>>),
                                 Absent))},
       readFails \in SUBSET ReadOps :
        Main(Typed("", "", "", 20), "click", http, FALSE, "none", readFails)

\* Another interaction while any of the panels' store reads may fail.
PanelRefresh ==
    \E readFails \in SUBSET ReadOps :
        Main(Typed("", "", "", 20), "edit", HttpFailure, FALSE, "none", readFails)

NextPanels == PanelSearch \/ PanelRefresh

SpecPanels == Init /\ [][NextPanels]_vars

\* ------------------------------------------------ search_flights on its own

RECURSIVE SeqsUpTo(_, _)
SeqsUpTo(S, n) ==
    IF n = 0 THEN {<<>>}
    ELSE LET shorter == SeqsUpTo(S, n - 1) IN
         shorter \cup {Append(q, x) : q \in shorter, x \in S}

\* Upstream lists of up to MaxLen flights.
ClientLists == SeqsUpTo({FlightA, FlightB}, MaxLen)

\* The envelopes AirLabs is known to use, and some it should not.
ClientBodies ==
    {BodyList(xs) : xs \in ClientLists}
    \cup {BodyDict(NoError, JList(xs), Absent) : xs \in ClientLists}
    \cup {BodyDict(NoError, Absent, JList(xs)) : xs \in ClientLists}
    \cup {BodyDict(NoError, JFlights(xs, TRUE), Absent) : xs \in ClientLists}
    \cup {BodyDict(NoError, JFlights(<<>>, FALSE), Absent),
          BodyDict(NoError, JDict(FALSE), JList(<<FlightA>>)),
          BodyDict(NoError, JDict(TRUE), JList(<<FlightA>>)),
          BodyDict(NoError, Absent, Absent),
          BodyDict(ErrorObj("unknown_api_key", "bad key"), JList(<<FlightA>>), Absent),
          BodyDict(ErrorObj(None, None), JList(<<FlightA>>), Absent),
          BodyDict(ErrorObj("rate_limit", None), Absent, Absent),
          BodyDict(ErrorObj(None, "slow down"), Absent, JList(<<FlightA, FlightB>>)),
          BodyDict(ErrorInfo, JFlights(<<FlightA>>, TRUE), Absent),
          BodyDict(ErrorObj(None, None), Absent, Absent)}

\* client.search_flights(FlightSearchParams(limit=limit)) against one answer.
CallSearchFlights ==
    \E limit \in 0..MaxLimit,
       http \in {HttpFailure} \cup {HttpOk(b) : b \in ClientBodies} :
        /\ call' = [made |-> TRUE, limit |-> limit, http |-> http,
                    result |-> SearchFlights(
                                   FlightSearchParams(None, None, None, limit), http),
                    params |-> NoFilters,
                    query |-> SentQuery(BuildQuery(NoFilters))]
        /\ UNCHANGED <<db, cache, now, runs, ui, unit>>

NextClient == CallSearchFlights

SpecClient == Init /\ [][NextClient]_vars

\* ------------------------------------------- the query search_flights sends

\* Flight codes, departure and arrival codes a caller may pass.
FlightCodeTexts ==
    {NoText, Text(<<>>), Text(<<" ">>), Text(<<"l", "h", "7", "6", "0">>),
     Text(<<"L", "H", "7", "6", "0">>), Text(<<"l", "h">>),
     Text(<<" ", "e", "1", "a", "2", " ">>)}

DepTexts ==
    {NoText, Text(<<>>), Text(<<" ">>), Text(<<"f", "r", "a">>),
     Text(<<"F", "R", "A">>), Text(<<" ", "F", "r", "a">>)}

ArrTexts ==
    {NoText, Text(<<>>), Text(<<"b", "e", "r">>), Text(<<"B", "E", "R">>),
     Text(<<"b", "e", "r", " ">>)}

\* client.search_flights(FlightSearchParams(flight_code, dep_iata, arr_iata))
\* up to the request it sends; the answer is an empty list.
CallWithFilters ==
    \E code \in FlightCodeTexts, dep \in DepTexts, arr \in ArrTexts :
        LET params == [flight_code |-> code, dep_iata |-> dep, arr_iata |-> arr]
            http == HttpOk(BodyList(<<>>))
        IN /\ call' = [made |-> TRUE, limit |-> 0, http |-> http,
                       result |-> SearchFlights(
                                      FlightSearchParams(None, None, None, 0), http),
                       params |-> params,
                       query |-> SentQuery(BuildQuery(params))]
           /\ UNCHANGED <<db, cache, now, runs, ui, unit>>

NextQuery == CallWithFilters

SpecQuery == Init /\ [][NextQuery]_vars

\* ------------------------------------------------------ the store on its own

\* Datasets handed to log_search_and_flights.
StoreFrames ==
    {FlightsToDataFrame(<<>>), FlightsToDataFrame(<<FlightB, FlightB>>),
     FlightsToDataFrame(<<FlightC, FlightA, FlightD>>)}

\* What the last store call was and gave back; last_id is the id returned by
\* the last call of log_search_and_flights that returned.
StoreUnit(op, last_id, fault, ok, id, before, df, limit, rows, days) ==
    [op |-> op, last_id |-> last_id, fault |-> fault, ok |-> ok, id |-> id,
     before |-> before, df |-> df, limit |-> limit, rows |-> rows, days |-> days]

LastId(u) == IF u.op = "none" THEN 0 ELSE u.last_id

\* log_search_and_flights(dep_iata, arr_iata, flight_code, 20, flights_df)
StoreLog ==
    /\ db.seqSearches < MaxCalls
    /\ \E route \in {<<None, None>>, <<"FRA", "BER">>}, df \in StoreFrames,
          fault \in DbFaults :
       \E r \in {LogSearchAndFlights(db, route[1], route[2], None, 20, df, now,
                                      fault)} :
          /\ db' = r.db
          /\ unit' = StoreUnit("log", IF r.ok THEN r.id ELSE LastId(unit), fault,
                               r.ok, r.id, db, df, 0, <<>>, {})
    /\ UNCHANGED <<cache, now, runs, ui, call>>

\* get_recent_searches(limit)
StoreRecent ==
    /\ \E limit \in 0..MaxLimit :
       \E rows \in RecentSearches(db, limit) :
          unit' = StoreUnit("recent", LastId(unit), "none", TRUE, 0, db,
                            NoDataFrame, limit, rows, {})
    /\ UNCHANGED <<db, cache, now, runs, ui, call>>

\* get_searches_by_day()
StoreByDay ==
    /\ unit' = StoreUnit("by_day", LastId(unit), "none", TRUE, 0, db,
                         NoDataFrame, 0, <<>>, SearchesByDay(db))
    /\ UNCHANGED <<db, cache, now, runs, ui, call>>

\* Midnight passes.
StoreNextDay ==
    /\ Day(now) < MaxDays
    /\ now' = now + SecondsPerDay
    /\ UNCHANGED <<db, cache, runs, ui, call, unit>>

NextStore == StoreLog \/ StoreRecent \/ StoreByDay \/ Tick \/ StoreNextDay

SpecStore == Init /\ [][NextStore]_vars

\* -------------------------------------------- compute_popular_routes on its own

\* pd.Timestamp.now(tz="UTC") of the call, in minutes.
PopularNow == 600

\* History rows: three routes, searched long ago, half an hour ago or with a
\* timestamp half an hour ahead of the clock; and one row without a route.
HistoryRows ==
    {HistoryRow(PopularNow - age, route[1], route[2]) :
        age \in {19 * DECAY_MINUTES, DECAY_MINUTES, 0 - DECAY_MINUTES},
        route \in {<<"FRA", "BER">>, <<"FRA", "MUC">>, <<"MUC", "BER">>}}
    \cup {HistoryRow(PopularNow, None, "BER")}

\* compute_popular_routes(df, top_k) on a history of up to MaxLen rows.
CallPopularRoutes ==
    /\ unit.op = "none"
    /\ \E df \in SeqsUpTo(HistoryRows, MaxLen), top_k \in 0..MaxLimit :
       \E out \in ComputePopularRoutes(df, top_k, PopularNow) :
          unit' = [op |-> "routes", df |-> df, top_k |-> top_k, out |-> out]
    /\ UNCHANGED <<db, cache, now, runs, ui, call>>

NextRoutes == CallPopularRoutes

SpecRoutes == Init /\ [][NextRoutes]_vars

\* ------------------------------------ cluster_flights_by_alt_speed on its own

\* A record that has no such key, hence a frame that has no such column.
WithoutColumn(row, col) == [k \in DOMAIN row \ {col} |-> row[k]]

\* Frames of up to MaxLen rows: with every column, without alt, without speed.
ClusterFrames ==
    LET lists == SeqsUpTo({FlightA, FlightB, FlightC}, MaxLen) IN
    {DataFrame(xs) : xs \in lists}
    \cup {DataFrame([i \in 1..Len(xs) |-> WithoutColumn(xs[i], col)]) :
            xs \in lists, col \in {"alt", "speed"}}

\* cluster_flights_by_alt_speed(df, n_clusters) called on a frame.
CallClusterFlights ==
    /\ unit.op = "none"
    /\ \E df \in ClusterFrames, n_clusters \in 1..N_CLUSTERS :
       \E labels \in (IF HasAltSpeed(df) THEN FitPredict(df, n_clusters)
                      ELSE {<<>>}) :
       \E r \in {ClusterFlights(df, n_clusters, labels)} :
          unit' = [op |-> "cluster", input |-> df, n_clusters |-> n_clusters,
                   after |-> r.input, out |-> r.df, fitted |-> r.fitted]
    /\ UNCHANGED <<db, cache, now, runs, ui, call>>

NextCluster == CallClusterFlights

SpecCluster == Init /\ [][NextCluster]_vars

\* ------------------------------------------------------------- properties

\* A step that is one execution of the script.
IsRun == runs' = runs + 1

\* A step in which the search button was clicked.
IsSearch == IsRun /\ ui'.event = "click"

\* The tuple of search parameters of the execution just made.
Tuple(u) == <<u.state.flight_code, u.state.dep_iata, u.state.arr_iata, u.state.limit>>

\* The successful fetches of the same tuple that are less than TTL seconds
\* old when the step is taken.
InWindow == {e \in cache : e.key = Tuple(ui') /\ now - e.at < TTL}

\* C1: a call of log_search_and_flights that returns adds exactly one
\* searches row, with the returned id and results_count = the dataset's row
\* count, and exactly that many flights rows, all with search_id = the
\* returned id (none for an empty dataset); every row that existed before is
\* still there unchanged.
C1_LogAddsOneSearchAndItsFlights ==
    [][(IsRun /\ ui'.log = "ok") =>
        LET n == Len(ui'.df.rows)
            newSearches == db'.searches \ db.searches
            newFlights == db'.flights \ db.flights
        IN /\ db.searches \subseteq db'.searches
           /\ db.flights \subseteq db'.flights
           /\ Cardinality(newSearches) = 1
           /\ \A s \in newSearches :
                 /\ s.id = ui'.logged_id
                 /\ s.results_count = n
                 /\ \A old \in db.searches : old.id /= s.id
           /\ Cardinality(newFlights) = n
           /\ \A f \in newFlights :
                 /\ f.search_id = ui'.logged_id
                 /\ \A old \in db.flights : old.id /= f.id
           /\ \A i \in 1..n :
                 Cardinality({f \in newFlights : f.row = ui'.df.rows[i]}) =
                 Cardinality({j \in 1..n : ui'.df.rows[j] = ui'.df.rows[i]})]_vars

\* C1 witness: an empty dataset and a dataset with repeated rows were logged,
\* the empty one while rows of the other search existed.
C1_Witness ==
    /\ ui.log = "ok" /\ ui.df.present /\ Empty(ui.df)
    /\ Cardinality(db.searches) = 2
    /\ Cardinality(db.flights) = 5

\* C2 as stated: a repeated identical search inside the TTL window leaves the
\* number of searches rows and of flights rows as it was.
C2_RepeatedSearchNotLogged ==
    [][(IsSearch /\ InWindow /= {}) =>
        /\ Cardinality(db'.searches) = Cardinality(db.searches)
        /\ Cardinality(db'.flights) = Cardinality(db.flights)]_vars

\* C2 amended: a repeated identical search inside the TTL window makes no
\* network call but is logged like any other search: log_search_and_flights
\* is called with the cached dataset and, unless that call fails, there is one
\* more searches row and as many more flights rows as the cached dataset has.
C2_RepeatedSearchIsLogged ==
    [][(IsSearch /\ InWindow /= {}) =>
        /\ ui'.calls = 0
        /\ ui'.log \in {"ok", "failed"}
        /\ \A e \in InWindow :
              ui'.log = "ok" =>
                    /\ Cardinality(db'.searches) = Cardinality(db.searches) + 1
                    /\ Cardinality(db'.flights) =
                          Cardinality(db.flights) + Len(e.value.rows)]_vars

\* C2 witness: the second of two identical searches was served from the cache
\* and both were logged, the second one with no flights.
C2_Witness ==
    /\ ui.fetch = "hit" /\ ui.log = "ok" /\ Empty(ui.df)
    /\ Cardinality(db.searches) = 2

\* C3: a search whose tuple was fetched successfully less than TTL seconds
\* ago gets that dataset back with no network call; any other search (another
\* tuple, or the window over) makes exactly one network call.
C3_CacheWindow ==
    [][IsSearch =>
        IF InWindow /= {}
        THEN /\ ui'.calls = 0
             /\ ui'.fetch = "hit"
             /\ \A e \in InWindow : ui'.fetched = e.value
        ELSE /\ ui'.calls = 1
             /\ ui'.fetch \in {"miss", "error"}]_vars

\* C3 witness: a search served from the cache some time after the fetch,
\* while another tuple's entry had to be fetched.
C3_Witness ==
    /\ ui.fetch = "hit" /\ ui.calls = 0 /\ now > 0 /\ ~Empty(ui.fetched)
    /\ \E e \in cache : e.key = Tuple(ui) /\ e.at < now

\* The searches row and the flights rows a step has added.
AddedSearches == db'.searches \ db.searches
AddedFlights == db'.flights \ db.flights

\* C4 as stated: an unfiltered search whose upstream call returns n >= 1
\* flights logs one searches row with dep_iata, arr_iata and flight_code all
\* NULL and results_count = n, logs n flights rows and shows a counter of n.
C4_UnfilteredSearchLogsNulls ==
    [][(IsSearch /\ Unfiltered(ui'.state) /\ ui'.fetch = "miss"
          /\ ~Empty(ui'.fetched) /\ ui'.log = "ok") =>
        LET n == Len(ui'.fetched.rows) IN
        /\ Cardinality(AddedSearches) = 1
        /\ \A s \in AddedSearches :
              /\ s.dep_iata = None
              /\ s.arr_iata = None
              /\ s.flight_code = None
              /\ s.results_count = n
        /\ Cardinality(AddedFlights) = n
        /\ ui'.metrics.state = "chips"
        /\ ui'.metrics.flights = n]_vars

\* C5: when the fetch of a search fails, nothing is written to the store, no
\* dataset is shown (the results area is in its no-search state), clustering
\* and logging are not run, the error panel is shown, and the history and
\* analytics sections are rendered.
C5_FetchFailureContained ==
    [][(IsSearch /\ ui'.fetch = "error") =>
        /\ db' = db
        /\ cache' = cache
        /\ ~ui'.df.present
        /\ ui'.metrics.state = "no_search"
        /\ ~ui'.table
        /\ ui'.ml = "none"
        /\ ui'.log = "none"
        /\ "fetch_error" \in ui'.panels
        /\ ui'.history.status \in {"data", "info", "warning"}
        /\ \A i \in 1..Len(ViewNames) : ui'.views[i] \in {"data", "info", "warning"}]_vars

\* C5 witness: a failed fetch while the store already held a logged search.
C5_Witness ==
    /\ ui.fetch = "error" /\ ui.event = "click"
    /\ db.searches /= {} /\ db.flights /= {}
    /\ ui.history.status = "data"

\* C6: when log_search_and_flights fails after a successful fetch, a warning
\* is shown (not the fetch error panel) and the fetched dataset is what the
\* metrics and the results table are rendered from: for a dataset with rows,
\* the chips with its row count and the table; for one without rows, the
\* no-flights message.
C6_LogFailureKeepsResults ==
    [][(IsSearch /\ ui'.log = "failed") =>
        /\ "db_warning" \in ui'.panels
        /\ "fetch_error" \notin ui'.panels
        /\ ui'.fetch \in {"hit", "miss"}
        /\ ui'.df.present
        /\ ui'.df.rows = ui'.fetched.rows
        /\ IF Len(ui'.fetched.rows) > 0
           THEN /\ ui'.metrics.state = "chips"
                /\ ui'.metrics.flights = Len(ui'.fetched.rows)
                /\ ui'.table
           ELSE ui'.metrics.state = "no_flights" /\ ~ui'.table]_vars

\* C6 witness: logging failed for a clustered dataset that is on display.
C6_Witness ==
    /\ ui.log = "failed" /\ ui.table /\ ui.metrics.state = "chips"
    /\ ui.metrics.flights = 3 /\ ui.ml = "ok" /\ ui.metrics.clusters = 3

\* C7: when clustering fails on a non-empty fetched dataset, a warning is
\* shown, the dataset has no cluster column, log_search_and_flights is still
\* called with the whole fetched dataset (and, unless it fails too, stores one
\* searches row with its row count and that many flights rows), and the
\* dataset is displayed.
C7_ClusterFailureKeepsSearch ==
    [][(IsSearch /\ ui'.ml = "failed") =>
        /\ "ml_warning" \in ui'.panels
        /\ "fetch_error" \notin ui'.panels
        /\ ~Empty(ui'.fetched)
        /\ ui'.df = ui'.fetched
        /\ ~ui'.df.hasCluster
        /\ ui'.log \in {"ok", "failed"}
        /\ ui'.log = "ok" =>
              /\ Cardinality(AddedSearches) = 1
              /\ \A s \in AddedSearches : s.results_count = Len(ui'.fetched.rows)
              /\ Cardinality(AddedFlights) = Len(ui'.fetched.rows)
              /\ \A f \in AddedFlights :
                    \E i \in 1..Len(ui'.fetched.rows) : f.row = ui'.fetched.rows[i]
        /\ ui'.metrics.state = "chips"
        /\ ui'.metrics.flights = Len(ui'.fetched.rows)
        /\ ui'.metrics.clusters = 0
        /\ ui'.table]_vars

\* C7 witness: clustering failed, the search was logged and is on display.
C7_Witness ==
    /\ ui.ml = "failed" /\ ui.log = "ok" /\ ui.table
    /\ \E s \in db.searches : s.id = ui.logged_id /\ s.results_count = Len(ui.df.rows)

\* C8: whichever of the panels' store reads fail, every panel is rendered:
\* a panel whose read failed shows its warning, every other panel shows its
\* data or its info line; the recent-searches read is one of them.
C8_PanelsIsolated ==
    ui.event /= "start" =>
        /\ ui.history.status =
              (IF "recent" \in ui.failed THEN "warning"
               ELSE IF db.searches = {} THEN "info" ELSE "data")
        /\ \A i \in 1..Len(ViewNames) :
              IF ViewNames[i] \in ui.failed
              THEN ui.views[i] = "warning"
              ELSE ui.views[i] \in {"data", "info"}
        /\ ("routes" \notin ui.failed /\ RouteRows(db) /= {}) => ui.views[1] = "data"
        /\ ("airlines" \notin ui.failed /\ AirlineRows(db) /= {}) => ui.views[2] = "data"
        /\ ("by_day" \notin ui.failed /\ db.searches /= {}) => ui.views[3] = "data"
        /\ ("alt_speed" \notin ui.failed
              /\ Cardinality(AltSpeedRows(db)) >= MIN_SCATTER) => ui.views[4] = "data"

\* C8 witness: three reads failed, among them the first one of the script and
\* the first one of the analytics panel, and the other panels show data.
C8_Witness ==
    /\ ui.failed = {"recent", "routes", "by_day"}
    /\ ui.history.status = "warning"
    /\ ui.views = <<"warning", "data", "warning", "data", "info">>

\* Every flights row references exactly one existing searches row.
RefIntegrity ==
    \A f \in db.flights : Cardinality({s \in db.searches : s.id = f.search_id}) = 1

\* C9: deleting a searches row removes exactly the flights rows that
\* reference it, and in every state every flights row's search_id identifies
\* exactly one searches row.
C9_CascadeDelete ==
    /\ []RefIntegrity
    /\ [][(db'.searches /= db.searches /\ db'.searches \subseteq db.searches) =>
            LET gone == {s.id : s \in db.searches \ db'.searches} IN
            db'.flights = {f \in db.flights : f.search_id \notin gone}]_vars

\* C9 witness: of two logged searches with flights one was deleted, and only
\* the other one's flights rows are left.
C9_Witness ==
    /\ db.seqSearches = 2 /\ Cardinality(db.searches) = 1
    /\ db.seqFlights = 8 /\ Cardinality(db.flights) = 5
    /\ \A f \in db.flights : \E s \in db.searches : s.id = f.search_id

\* C10: for a positive limit, search_flights returns the first limit
\* elements of the unwrapped list, in order, when that list is longer than
\* limit, and the whole list otherwise.
C10_TruncationIsPrefix ==
    (call.made /\ ~call.result.raised /\ call.limit > 0
       /\ Unwrapped(call.http.body).isList) =>
        LET whole == Unwrapped(call.http.body).items
            got == call.result.flights
        IN IF Len(whole) > call.limit
           THEN /\ Len(got) = call.limit
                /\ \A i \in 1..call.limit : got[i] = whole[i]
           ELSE got = whole

\* C10 witness: a list of three distinct-ended flights cut to two.
C10_Witness ==
    /\ call.made /\ call.limit = 2
    /\ Unwrapped(call.http.body).items = <<FlightA, FlightB, FlightB>>
    /\ call.result.flights = <<FlightA, FlightB>>

\* A text was supplied: it is neither None nor empty.
Supplied(t) == ~t.none /\ Len(t.chars) > 0

\* No lower-case letter and no blank at either end.
Normalised(s) ==
    /\ \A i \in 1..Len(s) : s[i] \notin {"a", "b", "e", "f", "h", "l", "r"}
    /\ Len(s) > 0 => s[1] /= " " /\ s[Len(s)] /= " "

\* C11 as stated: whenever a flight code is given, the query holds both
\* flight_iata and flight_number; dep_iata and arr_iata are there, upper-case,
\* whenever supplied; no key appears for a field that was not supplied.
C11_CodeSendsBothKeys ==
    call.made =>
        LET p == call.params
            q == call.query
        IN /\ Supplied(p.flight_code) =>
                 /\ "flight_iata" \in DOMAIN q
                 /\ "flight_number" \in DOMAIN q
           /\ "dep_iata" \in DOMAIN q <=> Supplied(p.dep_iata)
           /\ "arr_iata" \in DOMAIN q <=> Supplied(p.arr_iata)
           /\ ~Supplied(p.flight_code) =>
                 /\ "flight_iata" \notin DOMAIN q
                 /\ "flight_number" \notin DOMAIN q

\* C11 amended: dep_iata and arr_iata are in the query, stripped and
\* upper-cased, exactly when supplied; flight_iata is there (the stripped,
\* upper-cased code) exactly when the supplied code is not blank, and
\* flight_number (the code's digits, in order) exactly when the code holds a
\* digit; the query has no other key besides api_key.
C11_FiltersForwarded ==
    call.made =>
        LET p == call.params
            q == call.query
            code == StrStrip(p.flight_code.chars)
        IN /\ DOMAIN q \subseteq
                 {"api_key", "dep_iata", "arr_iata", "flight_iata", "flight_number"}
           /\ "api_key" \in DOMAIN q
           /\ "dep_iata" \in DOMAIN q <=> Supplied(p.dep_iata)
           /\ "dep_iata" \in DOMAIN q =>
                 /\ q["dep_iata"] = StrUpper(StrStrip(p.dep_iata.chars))
                 /\ Normalised(q["dep_iata"])
           /\ "arr_iata" \in DOMAIN q <=> Supplied(p.arr_iata)
           /\ "arr_iata" \in DOMAIN q =>
                 /\ q["arr_iata"] = StrUpper(StrStrip(p.arr_iata.chars))
                 /\ Normalised(q["arr_iata"])
           /\ "flight_iata" \in DOMAIN q <=> (Supplied(p.flight_code) /\ code /= <<>>)
           /\ "flight_iata" \in DOMAIN q =>
                 /\ q["flight_iata"] = StrUpper(code)
                 /\ Normalised(q["flight_iata"])
           /\ "flight_number" \in DOMAIN q <=>
                 (Supplied(p.flight_code) /\ \E i \in 1..Len(code) : IsDigit(code[i]))
           /\ "flight_number" \in DOMAIN q =>
                 /\ q["flight_number"] = DigitsOf(code)
                 /\ \A i \in 1..Len(q["flight_number"]) : IsDigit(q["flight_number"][i])

\* C11 witness: a lower-case route and a lower-case code with digits were
\* sent upper-case; and a code without digits was sent without flight_number.
C11_Witness ==
    /\ call.made
    /\ call.params.flight_code = Text(<<"l", "h">>)
    /\ call.params.dep_iata = Text(<<" ", "F", "r", "a">>)
    /\ call.params.arr_iata = Text(<<"b", "e", "r", " ">>)
    /\ call.query = [k \in {"api_key", "dep_iata", "arr_iata", "flight_iata"} |->
                       CASE k = "api_key" -> ApiKey
                         [] k = "dep_iata" -> <<"F", "R", "A">>
                         [] k = "arr_iata" -> <<"B", "E", "R">>
                         [] OTHER -> <<"L", "H">>]

\* C12: when alt or speed is missing as a column, or fewer rows than
\* n_clusters have both values, the returned frame has the same rows, a
\* cluster of "no value" in every row, and there is no fitted model;
\* otherwise there is a model, exactly the rows with both values carry a
\* label in 0..n_clusters-1 and the others "no value".  The caller's frame
\* is as it was.
C12_ClusterLabels ==
    unit.op = "cluster" =>
        LET rows == unit.input.rows
            idx == 1..Len(rows)
            n == unit.n_clusters
            missing == \/ idx = {}
                       \/ \E i \in idx : "alt" \notin DOMAIN rows[i]
                       \/ \E i \in idx : "speed" \notin DOMAIN rows[i]
            both == IF missing THEN {}
                    ELSE {i \in idx : rows[i].alt /= NoNum /\ rows[i].speed /= NoNum}
        IN /\ unit.after = unit.input
           /\ ~unit.input.hasCluster
           /\ unit.out.rows = rows
           /\ unit.out.hasCluster
           /\ DOMAIN unit.out.cluster = idx
           /\ IF missing \/ Cardinality(both) < n
              THEN /\ ~unit.fitted
                   /\ \A i \in idx : unit.out.cluster[i] = NoLabel
              ELSE /\ unit.fitted
                   /\ \A i \in both : unit.out.cluster[i] \in 0..(n - 1)
                   /\ \A i \in idx \ both : unit.out.cluster[i] = NoLabel

\* C12 witness: with exactly n_clusters rows holding both values the model
\* was fitted: two rows were labelled 0 and 1, the row without alt was not.
C12_Witness ==
    /\ unit.op = "cluster" /\ unit.fitted
    /\ unit.input.rows = <<FlightA, FlightB, FlightC>>
    /\ Cardinality(ValidRows(unit.input)) = unit.n_clusters
    /\ unit.out.cluster = <<0, NoLabel, 1>>

\* The flights rows stored under a searches row.
FlightsOf(d, s) == {f \in d.flights : f.search_id = s.id}

\* A searches row that has fewer flights rows than its results_count.
Partial(d) == {s \in d.searches : Cardinality(FlightsOf(d, s)) < s.results_count}

\* C13 as stated, for the failure it is about: when the bulk flights insert
\* of log_search_and_flights fails, the searches row of that call is stored
\* with fewer flights rows than its results_count.
C13_FailureLeavesSearchRow ==
    [][(unit'.op = "log" /\ unit'.fault = "flights_insert" /\ ~unit'.ok) =>
          \E s \in db'.searches \ db.searches : s \in Partial(db')]_vars

\* C13 amended: a call of log_search_and_flights that fails, in the bulk
\* flights insert or elsewhere, leaves the store as it was, and no state is
\* reachable in which a searches row is stored with fewer flights rows than
\* its results_count.
C13_FailureLeavesNothing ==
    /\ [](Partial(db) = {})
    /\ [][(unit'.op = "log" /\ ~unit'.ok) => db' = db]_vars

\* C13 witness: the bulk insert of three flights failed after an earlier
\* search had been stored, and the store is as it was before the call.
C13_Witness ==
    /\ unit.op = "log" /\ unit.fault = "flights_insert" /\ ~unit.ok
    /\ Len(unit.df.rows) = 3
    /\ unit.before.searches /= {}
    /\ db = unit.before

\* C14 as stated: get_recent_searches(limit) returns min(limit, number of
\* searches rows) entries, which are the most recently logged searches, and a
\* search logged later (it has the greater id) never comes after a search
\* logged earlier.
C14_RecentMostRecentFirst ==
    unit.op = "recent" =>
        LET rows == unit.rows
            k == Len(rows)
        IN /\ k = Min(unit.limit, Cardinality(db.searches))
           /\ \A i \in 1..k : rows[i] \in db.searches
           /\ \A i, j \in 1..k : i < j => rows[i].id > rows[j].id
           /\ \A s \in db.searches :
                 (\A i \in 1..k : rows[i] /= s) =>
                     \A i \in 1..k : rows[i].id > s.id

\* max(0.1, 1/(1 + age/30)) in twentieths, for the ages of HistoryRows: a
\* search of this minute or with a later timestamp counts 1, one of half an
\* hour ago 1/2, an older one the floor of 1/10.
Twentieths(searched_at) ==
    IF searched_at >= PopularNow THEN 20
    ELSE IF searched_at = PopularNow - 30 THEN 10
    ELSE 2

\* C15: on a non-empty history compute_popular_routes returns the first
\* top_k of the distinct routes, one record each, in descending order of
\* score; a record's count is the number of history rows of its route, its
\* recency_score the sum of max(0.1, 1/(1 + age/30)) over them (age clamped at
\* 0) and its score 0.7 * count + 0.3 * recency_score; no route left out has
\* a greater score than a route returned.  On an empty history the result is
\* empty.
C15_PopularRoutes ==
    unit.op = "routes" =>
        LET df == unit.df
            out == unit.out
            idx == {i \in 1..Len(df) :
                      df[i].dep_iata /= None /\ df[i].arr_iata /= None}
            routeAt == [i \in idx |-> <<df[i].dep_iata, df[i].arr_iata>>]
            routes == {routeAt[i] : i \in idx}
            rows(r) == {i \in idx : routeAt[i] = r}
            recency == [i \in idx |-> Twentieths(df[i].searched_at)]
            \* in two-hundredths: 0.7 * count + 0.3 * recency_score
            score(r) == 140 * Cardinality(rows(r)) + 3 * SumOver(recency, rows(r))
        IN /\ df = <<>> => out = <<>>
           /\ Len(out) <= unit.top_k
           /\ Len(out) = Min(unit.top_k, Cardinality(routes))
           /\ \A i \in 1..Len(out) :
                 /\ out[i].route \in routes
                 /\ out[i].count = Cardinality(rows(out[i].route))
                 /\ out[i].recency_score = SumOver(recency, rows(out[i].route))
                 /\ out[i].score = score(out[i].route)
           /\ \A i, j \in 1..Len(out) :
                 i < j => /\ out[i].route /= out[j].route
                          /\ out[i].score >= out[j].score
           /\ \A r \in routes :
                 (\A i \in 1..Len(out) : out[i].route /= r) =>
                     \A i \in 1..Len(out) : score(r) <= out[i].score

\* C15 witness: of three routes in the history the two with the higher
\* scores were returned, the once-searched recent one ahead of the old one,
\* and the route searched long ago was left out.
C15_Witness ==
    /\ unit.op = "routes" /\ unit.top_k = 2 /\ Len(unit.df) = 3
    /\ Len(unit.out) = 2
    /\ unit.out[1].route = <<"MUC", "BER">> /\ unit.out[1].score = 200
    /\ unit.out[2].route = <<"FRA", "BER">> /\ unit.out[2].score = 170
    /\ \E i \in 1..Len(unit.df) : unit.df[i].dep_iata = "FRA" /\ unit.df[i].arr_iata = "MUC"

\* C16 as stated: whenever the body is an object with a top-level error
\* object, search_flights raises the provider error made of error.code and
\* error.message, with the defaults for a missing one, and returns no flights.
C16_ErrorObjectRaises ==
    (call.made /\ call.http.ok /\ call.http.body.t = "dict"
       /\ call.http.body.error.present) =>
        LET e == call.http.body.error IN
        /\ call.result.raised
        /\ call.result.kind = "provider"
        /\ call.result.code = (IF e.code = None THEN "unknown_error" ELSE e.code)
        /\ call.result.message =
              (IF e.message = None THEN "Unknown AirLabs API error" ELSE e.message)
        /\ call.result.flights = <<>>

\* C16 amended: whenever the body is an object whose top-level error object
\* is not empty, search_flights raises the provider error made of error.code
\* and error.message, with the defaults for a missing one, and returns no
\* flights, whatever else the body holds; an empty error object is treated
\* like a missing one: nothing is raised.
C16_NonEmptyErrorRaises ==
    (call.made /\ call.http.ok /\ call.http.body.t = "dict"
       /\ call.http.body.error.present) =>
        LET e == call.http.body.error
            empty == e.code = None /\ e.message = None /\ ~e.extra
        IN IF empty
           THEN ~call.result.raised
           ELSE /\ call.result.raised
                /\ call.result.kind = "provider"
                /\ call.result.code =
                      (IF e.code = None THEN "unknown_error" ELSE e.code)
                /\ call.result.message =
                      (IF e.message = None THEN "Unknown AirLabs API error"
                       ELSE e.message)
                /\ call.result.flights = <<>>

\* C16 witness: an error object without a code, next to a list of two
\* flights under "data": the error was raised with the default code and no
\* flight was returned.
C16_Witness ==
    /\ call.made
    /\ call.http.body.t = "dict"
    /\ call.http.body.error = ErrorObj(None, "slow down")
    /\ call.http.body.data = JList(<<FlightA, FlightB>>)
    /\ call.result.raised
    /\ call.result.code = "unknown_error" /\ call.result.message = "slow down"
    /\ call.result.flights = <<>>

\* C17: an interaction other than a click on the search button makes no
\* upstream call, runs neither clustering nor logging, writes nothing to the
\* store or the cache, and renders the results area in its no-search state:
\* no dataset, no chips, no table, whatever the previous execution showed.
C17_OnlyClickSearches ==
    [][(IsRun /\ ui'.event /= "click") =>
        /\ ~ui'.state.search_clicked
        /\ ui'.calls = 0
        /\ ui'.fetch = "none"
        /\ ui'.ml = "none"
        /\ ui'.log = "none"
        /\ db' = db
        /\ cache' = cache
        /\ ~ui'.df.present
        /\ ui'.metrics.state = "no_search"
        /\ ~ui'.table
        /\ ui'.panels = {}]_vars

\* C17 witness: after a search whose three flights were stored and shown, a
\* flight was selected in the detail panel, and the results area is back in
\* its no-search state.
C17_Witness ==
    /\ ui.event = "select"
    /\ ui.metrics.state = "no_search" /\ ~ui.table
    /\ Cardinality(db.flights) = 3 /\ Cardinality(db.searches) = 1
    /\ ui.history.status = "data"

\* C18: with calls of log_search_and_flights and no deletion, every searches
\* row has as many flights rows as its results_count says; the total_results
\* of get_searches_by_day add up to the number of flights rows and its
\* search_count values to the number of searches rows; and every id returned
\* is greater than all ids returned or stored before.
C18_StoreCountsAgree ==
    /\ [](LET days == SearchesByDay(db)
              totals == [r \in days |-> r.total_results]
              counts == [r \in days |-> r.search_count]
          IN /\ \A s \in db.searches :
                   Cardinality({f \in db.flights : f.search_id = s.id})
                     = s.results_count
             /\ \A f \in db.flights : \E s \in db.searches : s.id = f.search_id
             /\ SumOver(totals, days) = Cardinality(db.flights)
             /\ SumOver(counts, days) = Cardinality(db.searches)
             /\ unit.op = "by_day" => unit.days = days)
    /\ [][(db' /= db /\ unit'.op = "log" /\ unit'.ok) =>
            /\ unit'.id > LastId(unit)
            /\ \A s \in db.searches : unit'.id > s.id
            /\ \E s \in db'.searches \ db.searches : s.id = unit'.id]_vars

\* C18 witness: a search with three flights was stored, midnight passed, a
\* search with two flights was stored under the next id, and
\* get_searches_by_day returned one row per day.
C18_Witness ==
    /\ unit.op = "by_day" /\ unit.last_id = 2
    /\ unit.days = {[date |-> 0, search_count |-> 1, total_results |-> 3],
                    [date |-> 1, search_count |-> 1, total_results |-> 2]}
    /\ Cardinality(db.flights) = 5

TypeOK ==
    /\ now \in 0..(MaxDays * SecondsPerDay + MaxTime)
    /\ runs \in 0..MaxRuns

====
